---------------------------- MODULE Spec2Model ----------------------------
(***************************************************************************)
(* Model of the TEDxSDG tool registry (tools/tool_registry.py), of the     *)
(* configuration schemas it validates with (schemas/config_schemas.py)     *)
(* and of the agent factories that consume it (crewai_manager/ and         *)
(* manager/agent_factory.py).                                              *)
(*                                                                         *)
(* Python values are modelled as records tagged with their Python type in  *)
(* the field py: None is [py |-> "None"], a dict is [py |-> "dict", d |->  *)
(* the mapping] and an object of class C is [py |-> "C", ...fields].       *)
(* Temperatures are counted in tenths (7 is 0.7).                          *)
(***************************************************************************)
EXTENDS Integers, Sequences, FiniteSets, TLC

VARIABLES
    reg,              \* "none" | "ok" | "failed": the ToolRegistry object
    llm_config,       \* ToolRegistry.llm_config
    embedder_config,  \* ToolRegistry.embedder_config
    tool_configs,     \* ToolRegistry.tool_configs
    tools,            \* ToolRegistry.tools, the cache: name -> instance
    pc,               \* per thread: position inside get_tool
    result,           \* outcome of the last completed call
    ctorCalls,        \* per name: calls of tool_class(**tool_kwargs)
    builds,           \* per name: tool instances (dataset indexes) built
    returned,         \* per name: instances get_tool has returned
    fixed,            \* corrections made to tool_configs: the name of the
                      \* tool and the error that prompted the correction
    loaded,           \* the tool object in use: its class and its index
    answer,           \* outcome of the last constructor or run call on it
    validated,        \* the last model_validate call: input and outcome
    loader,           \* the last load_config call: file, section and outcome
    mgr               \* the CrewAIManager object and its last call's outcome

\* The registry and its callers.
regVars == <<reg, llm_config, embedder_config, tool_configs, tools, pc, result,
             ctorCalls, builds, returned, fixed>>

\* A tool object used on its own.
dataVars == <<loaded, answer>>

\* The callers of the schemas and of the configuration loader, and the
\* crew manager.
auxVars == <<validated, loader, mgr>>

vars == <<reg, llm_config, embedder_config, tool_configs, tools, pc, result,
          ctorCalls, builds, returned, fixed, loaded, answer, validated, loader,
          mgr>>

-----------------------------------------------------------------------------
(* Bounds *)

MaxFixes == 1

MaxCtorCalls == 2

-----------------------------------------------------------------------------
(* Python values *)

PyNone == [py |-> "None"]

EmptyMap == [x \in {} |-> x]

PyDict(m) == [py |-> "dict", d |-> m]

\* The value of an expression computed once: the element of a singleton.
Only(S) == CHOOSE x \in S : TRUE

\* Python truthiness of None / dict / list / str / object values ("not x"
\* is ~Truthy(x)).
Truthy(v) ==
    CASE v.py = "None" -> FALSE
      [] v.py = "dict" -> DOMAIN v.d # {}
      [] v.py = "list" -> v.l # <<>>
      [] v.py = "str" -> v.s # <<>>
      [] OTHER -> TRUE

\* dict.get(key, default) on a modelled dict.
DictGet(v, key, default) == IF key \in DOMAIN v.d THEN v.d[key] ELSE default

\* str.strip() leaves nothing: the strings of the model that are all blanks.
BlankStrings == {"", " ", "  "}

IsBlank(s) == s \in BlankStrings

Raised(cls, kind) == [status |-> "raised", cls |-> cls, kind |-> kind]

-----------------------------------------------------------------------------
(* schemas/config_schemas.py *)

\* LLMInnerConfig / EmbedderInnerConfig: model required and not blank,
\* temperature defaults to 0 and must be >= 0.
InnerConfigValid(c) ==
    /\ c.py = "dict"
    /\ "model" \in DOMAIN c.d
    /\ ~IsBlank(c.d["model"])
    /\ ("temperature" \in DOMAIN c.d => c.d["temperature"] >= 0)

\* LLMConfig / EmbedderConfig: provider required and not blank, config a
\* valid inner config.
ConfigValid(raw) ==
    /\ raw.py = "dict"
    /\ "provider" \in DOMAIN raw.d
    /\ ~IsBlank(raw.d["provider"])
    /\ "config" \in DOMAIN raw.d
    /\ InnerConfigValid(raw.d["config"])

ConfigObjectNoTemperature(cls, raw) ==
    [py          |-> cls,
     provider    |-> raw.d["provider"],
     model       |-> raw.d["config"].d["model"],
     temperature |-> 0]

\* The object model_validate builds from a valid raw mapping.
ConfigObject(cls, raw) ==
    [py          |-> cls,
     provider    |-> raw.d["provider"],
     model       |-> raw.d["config"].d["model"],
     temperature |-> IF "temperature" \in DOMAIN raw.d["config"].d
                     THEN raw.d["config"].d["temperature"] ELSE 0]

ModelValidateLax(cls, raw) == [status |-> "ok", value |-> raw]

\* cls.model_validate(raw): an instance of cls passes through, a valid
\* mapping becomes an instance, anything else is a ValidationError.
ModelValidate(cls, raw) ==
    IF raw.py = cls THEN [status |-> "ok", value |-> raw]
    ELSE IF ConfigValid(raw) THEN [status |-> "ok", value |-> ConfigObject(cls, raw)]
    ELSE Raised("ValidationError", "InvalidConfig")

-----------------------------------------------------------------------------
(* Configuration inputs *)

RawConfig(provider, model, temperature) ==
    PyDict([provider |-> provider,
            config |-> PyDict([model |-> model, temperature |-> temperature])])

\* A mapping whose inner config has no model key.
RawNoModel(provider) ==
    PyDict([provider |-> provider, config |-> PyDict([temperature |-> 7])])

RawLLMShared == RawConfig("ollama", "llama3", 7)

RawEmbShared == RawConfig("ollama", "nomic-embed-text", 0)

RawLLMTool == RawConfig("ollama", "mistral", 2)

RawEmbTool == RawConfig("ollama", "mxbai-embed-large", 0)

\* What a caller may pass as llm_config to ToolRegistry(...).
LLMArgs ==
    {PyNone, PyDict(EmptyMap), RawLLMShared, RawNoModel("ollama"),
     ConfigObject("LLMConfig", RawLLMShared),
     ConfigObject("EmbedderConfig", RawEmbShared)}

\* What a caller may pass as embedder_config to ToolRegistry(...).
EmbArgs ==
    {PyNone, RawEmbShared, RawNoModel("ollama"),
     ConfigObject("EmbedderConfig", RawEmbShared)}

-----------------------------------------------------------------------------
(* tools.yaml *)

\* tool_mapping of get_tool: the closed set of tool names.
ToolNames ==
    {"tedx_search", "tedx_slug", "tedx_transcript", "sdg_align",
     "sustainability_impact", "duckduckgo_search"}

\* The names _create_tool requires a data_path for.
DatasetTools ==
    {"tedx_search", "tedx_slug", "tedx_transcript", "sdg_align",
     "sustainability_impact"}

\* Names a caller may ask for: the known ones and one that is not a tool.
Names == ToolNames \cup {"not_a_real_tool"}

NoPath == "<None>"

\* The files of the model: one readable CSV, one path with no file behind
\* it, one file that cannot be read as CSV text.
FileStatus(path) ==
    CASE path = "data/missing.csv" -> "missing"
      [] path = "data/garbled.csv" -> "unreadable"
      [] OTHER -> "ok"

GoodSpec(n) ==
    IF n \in DatasetTools
    THEN PyDict([llm_config |-> RawLLMTool, embedder_config |-> RawEmbTool,
                 data_path |-> "data/ok.csv"])
    ELSE PyDict([llm_config |-> RawLLMTool, embedder_config |-> RawEmbTool])

\* The shapes a tools.yaml entry takes in the model.
SpecShapes ==
    {PyNone,
     PyDict(EmptyMap),
     PyDict([llm_config |-> RawLLMTool, embedder_config |-> RawEmbTool]),
     PyDict([llm_config |-> RawLLMTool, embedder_config |-> RawEmbTool,
             data_path |-> ""]),
     PyDict([llm_config |-> RawLLMTool, embedder_config |-> RawEmbTool,
             data_path |-> "data/ok.csv"]),
     PyDict([llm_config |-> RawLLMTool, embedder_config |-> RawEmbTool,
             data_path |-> "data/missing.csv"]),
     PyDict([llm_config |-> RawLLMTool, embedder_config |-> RawEmbTool,
             data_path |-> "data/garbled.csv"]),
     PyDict([embedder_config |-> RawEmbTool, data_path |-> "data/ok.csv"]),
     PyDict([llm_config |-> RawLLMTool, data_path |-> "data/ok.csv"]),
     PyDict([embedder_config |-> RawEmbTool]),
     PyDict([data_path |-> "data/ok.csv"]),
     PyDict([llm_config |-> RawNoModel("ollama"),
             embedder_config |-> RawEmbTool, data_path |-> "data/ok.csv"]),
     PyDict([llm_config |-> RawLLMTool,
             embedder_config |-> RawNoModel(""), data_path |-> "data/ok.csv"]),
     PyDict([llm_config |-> RawNoModel("ollama"),
             embedder_config |-> RawEmbTool])}

\* An entry that is complete but for the CSV behind its data_path.
DatasetSpec(path) ==
    PyDict([llm_config |-> RawLLMTool, embedder_config |-> RawEmbTool,
            data_path |-> path])

\* Parsed contents of tools.yaml: an empty file (None), a file with a good
\* entry for every tool, the files with a single entry, of any shape, and
\* two files with a good entry next to one whose CSV is missing or garbled.
YamlContents ==
    {PyNone}
    \cup {PyDict([n \in ToolNames |-> GoodSpec(n)])}
    \cup {PyDict([m \in {n} |-> s]) : n \in ToolNames, s \in SpecShapes}
    \cup {PyDict([n \in {"tedx_slug", "tedx_search"} |->
                    IF n = "tedx_slug" THEN DatasetSpec("data/missing.csv")
                    ELSE GoodSpec(n)]),
          PyDict([n \in {"sdg_align", "duckduckgo_search"} |->
                    IF n = "sdg_align" THEN DatasetSpec("data/garbled.csv")
                    ELSE GoodSpec(n)])}

\* What open()/yaml.safe_load do for tools_config_path.
YamlFiles ==
    {[status |-> "raised", cls |-> "FileNotFoundError", kind |-> "NoToolsYaml"],
     [status |-> "raised", cls |-> "YAMLError", kind |-> "BadToolsYaml"]}
    \cup {[status |-> "ok", value |-> c] : c \in YamlContents}


-----------------------------------------------------------------------------
(* tools/tool_registry.py *)

MainThread == "main"

Threads == {MainThread, "worker"}

Idle == [at |-> "idle", name |-> ""]

\* Outcome of a completed call: what it was, what it returned or raised.
Returns(op, args, val) ==
    [op |-> op, args |-> args, status |-> "ok", cls |-> "", kind |-> "",
     val |-> val]

Raises(op, args, err) ==
    [op |-> op, args |-> args, status |-> "raised", cls |-> err.cls,
     kind |-> err.kind, val |-> <<>>]

NoResult == Returns("", <<>>, <<>>)

\* get_tool returned the tool it found in the cache ("fetched from
\* registry" in the log) or the one it created ("created and added").
Fetched(n, tool) ==
    [Returns("get_tool", <<n>>, <<tool>>) EXCEPT !.kind = "fetched"]

Created(n, tool) ==
    [Returns("get_tool", <<n>>, <<tool>>) EXCEPT !.kind = "created"]

\* A call is in progress: its caller has no outcome yet.
Pending ==
    [op |-> "get_tool", args |-> <<>>, status |-> "pending", cls |-> "",
     kind |-> "", val |-> <<>>]

\* No tool object has been constructed, no call has been made on one.
\* search_results is the field of that name of the web search tool.
NoTool ==
    [name |-> "", status |-> "none", rows |-> <<>>, index |-> EmptyMap,
     search_results |-> EmptyMap]

\* Nothing has been validated.
NoValidation ==
    [cls |-> "", raw |-> PyNone, out |-> [status |-> "none"],
     again |-> [status |-> "none"]]

\* Nothing has been loaded.
NoLoad == [file |-> [kind |-> "none"], section |-> "", out |-> [status |-> "none"]]

\* No manager has been constructed. A call's outcome is its operation, its
\* argument, how it ended, the exception class, the task names it tried
\* and the crew it returned.
NoCall == [op |-> "none", arg |-> "", status |-> "none", cls |-> "",
           attempted |-> <<>>, crew |-> [agents |-> <<>>, tasks |-> <<>>]]

NoManager == [variant |-> "none", agents_config |-> PyNone,
              tasks_config |-> PyNone, agents |-> <<>>, tasks |-> <<>>,
              made |-> <<>>, out |-> NoCall]

NoAnswer == [op |-> "", args |-> <<>>, status |-> "ok", cls |-> "", text |-> "",
             about |-> <<>>, blocks |-> <<>>, report |-> {}]

Init ==
    /\ reg = "none"
    /\ llm_config = PyNone
    /\ embedder_config = PyNone
    /\ tool_configs = PyNone
    /\ tools = EmptyMap
    /\ pc = [t \in Threads |-> Idle]
    /\ result = NoResult
    /\ ctorCalls = [n \in Names |-> 0]
    /\ builds = [n \in Names |-> 0]
    /\ returned = [n \in Names |-> {}]
    /\ fixed = {}
    /\ loaded = NoTool
    /\ answer = NoAnswer
    /\ validated = NoValidation
    /\ loader = NoLoad
    /\ mgr = NoManager

InitCheckNoTypes(llm, emb) ==
    IF ~Truthy(llm) \/ ~Truthy(emb)
    THEN Raised("ValueError", "MissingSharedConfig")
    ELSE [status |-> "ok"]

\* ToolRegistry.__init__, lines 23-29: the checks on the two shared configs.
InitCheck(llm, emb) ==
    IF ~Truthy(llm) \/ ~Truthy(emb)
    THEN Raised("ValueError", "MissingSharedConfig")
    ELSE IF llm.py # "LLMConfig"
    THEN Raised("TypeError", "InvalidLLMConfig")
    ELSE IF emb.py # "EmbedderConfig"
    THEN Raised("TypeError", "InvalidEmbedderConfig")
    ELSE [status |-> "ok"]

\* ToolRegistry(llm, emb, path): the checks, then _load_tool_configs, which
\* re-raises whatever open() or yaml.safe_load raised and otherwise stores
\* the parsed content as it is.
NewToolRegistry(llm, emb, yaml) ==
    /\ reg = "none"
    /\ LET chk == InitCheck(llm, emb) IN
       IF chk.status = "raised"
       THEN /\ reg' = "failed"
            /\ result' = [Raises("ToolRegistry", <<>>, chk) EXCEPT !.val = <<llm, emb>>]
            /\ UNCHANGED <<llm_config, embedder_config, tool_configs>>
       ELSE IF yaml.status = "raised"
       THEN /\ reg' = "failed"
            /\ result' = [Raises("ToolRegistry", <<>>, yaml) EXCEPT !.val = <<llm, emb>>]
            /\ UNCHANGED <<llm_config, embedder_config, tool_configs>>
       ELSE /\ reg' = "ok"
            /\ llm_config' = llm
            /\ embedder_config' = emb
            /\ tool_configs' = yaml.value
            /\ result' = Returns("ToolRegistry", <<>>, <<llm, emb>>)
    /\ UNCHANGED <<tools, pc, ctorCalls, builds, returned, fixed>>
    /\ UNCHANGED <<dataVars, auxVars>>

NeedsDataPathNever(n) == FALSE

\* _create_tool, line 110: the tool names that must have a data_path.
NeedsDataPath(n) == n \in DatasetTools

ToolConfMerged(tool_config, key) ==
    IF key \in DOMAIN tool_config.d THEN tool_config.d[key]
    ELSE IF key = "llm_config" THEN llm_config
    ELSE embedder_config

\* _create_tool, lines 83 and 86: tool_config.get('embedder_config') and
\* tool_config.get('llm_config'), None when the entry has no such key.
ToolConf(tool_config, key) == DictGet(tool_config, key, PyNone)

ToolConfigFallback(cfgs, n) ==
    IF n \in DOMAIN cfgs.d THEN cfgs.d[n]
    ELSE IF DOMAIN cfgs.d # {} THEN cfgs.d[CHOOSE m \in DOMAIN cfgs.d : TRUE]
    ELSE PyDict(EmptyMap)

\* _create_tool, line 73: self.tool_configs.get(tool_name, {}).
ToolConfig(cfgs, n) == DictGet(cfgs, n, PyDict(EmptyMap))

\* _create_tool, lines 73-119: from the tool's entry in tool_configs to the
\* keyword arguments of the constructor, or the error raised on the way.
ToolKwargs(cfgs, n) ==
    IF cfgs.py = "None"
    THEN Raised("AttributeError", "NoToolConfigs")
    ELSE
    LET tool_config == ToolConfig(cfgs, n) IN
    IF ~Truthy(tool_config)
    THEN Raised("ValueError", "MissingToolConfig")
    ELSE
    LET embedder_conf == ToolConf(tool_config, "embedder_config")
        llm_conf == ToolConf(tool_config, "llm_config")
        data_path == DictGet(tool_config, "data_path", NoPath)
    IN
    IF embedder_conf.py = "None"
    THEN Raised("ValueError", "MissingEmbedderConfig")
    ELSE IF llm_conf.py = "None"
    THEN Raised("ValueError", "MissingLLMConfig")
    ELSE
    LET e == ModelValidate("EmbedderConfig", embedder_conf)
        l == ModelValidate("LLMConfig", llm_conf)
    IN
    IF e.status = "raised" THEN e
    ELSE IF l.status = "raised" THEN l
    ELSE IF NeedsDataPath(n) /\ data_path \in {NoPath, ""}
    THEN Raised("ValueError", "MissingDataPath")
    ELSE [status |-> "ok",
          value |-> [llm_config |-> l.value, embedder_config |-> e.value,
                     data_path |-> data_path]]

\* The tools whose index is built by a validator that first rejects a
\* data_path that is None or empty.
TEDxTools == {"tedx_search", "tedx_slug", "tedx_transcript"}

\* tool_class(**tool_kwargs): the constructors of the dataset tools open and
\* read the CSV at data_path; the web search tool reads no file.  A missing
\* file is a FileNotFoundError, any other failure of the load is raised
\* again as a plain Exception.
ToolClass(n, kwargs) ==
    IF n \notin DatasetTools THEN [status |-> "ok"]
    ELSE IF n \in TEDxTools /\ kwargs.data_path \in {NoPath, ""}
    THEN Raised("ValidationError", "NoDataPath")
    ELSE IF kwargs.data_path = NoPath
    THEN Raised("Exception", "CsvLoadFailed")
    ELSE IF kwargs.data_path = "" \/ FileStatus(kwargs.data_path) = "missing"
    THEN Raised("FileNotFoundError", "CsvNotFound")
    ELSE IF FileStatus(kwargs.data_path) = "unreadable"
    THEN Raised("Exception", "CsvLoadFailed")
    ELSE [status |-> "ok"]

\* The tool object a successful constructor call yields; id tells the
\* objects built for one name apart.
Instance(n, id, kwargs) ==
    [name |-> n, id |-> id, llm_config |-> kwargs.llm_config,
     embedder_config |-> kwargs.embedder_config,
     data_path |-> kwargs.data_path]

CachedNever(cache, n) == FALSE

\* get_tool line 139: the cache test.
Cached(cache, n) == n \in DOMAIN cache

KnownToolAny(n) == TRUE

\* get_tool lines 155-156: tool_mapping.get(tool_name) found a class.
KnownTool(n) == n \in ToolNames

\* The mutable part of the registry, with the counters that observe it.
Registry ==
    [tools |-> tools, ctorCalls |-> ctorCalls, builds |-> builds,
     returned |-> returned]

OnCreateFailureSwallow(R, n, err) ==
    [R |-> R, out |-> Returns("get_tool", <<n>>, <<>>)]

OnCreateFailureEvict(R, n, err) ==
    [R |-> [R EXCEPT !.tools = EmptyMap],
     out |-> Raises("get_tool", <<n>>, err)]

\* get_tool lines 165-167: the exception of _create_tool is logged and
\* raised again; the registry stays as it is.
OnCreateFailure(R, n, err) == [R |-> R, out |-> Raises("get_tool", <<n>>, err)]

\* get_tool lines 160-167 with _create_tool: create the tool, store it in
\* the cache and return it, or re-raise what _create_tool raised.
CreateAndStore(R, cfgs, n) ==
    LET kw == ToolKwargs(cfgs, n) IN
    IF kw.status = "raised"
    THEN OnCreateFailure(R, n, kw)
    ELSE
    LET made == ToolClass(n, kw.value)
        R1 == [R EXCEPT !.ctorCalls[n] = @ + 1]
    IN
    IF made.status = "raised"
    THEN OnCreateFailure(R1, n, made)
    ELSE
    LET tool == Instance(n, R.builds[n] + 1, kw.value) IN
    [R |-> [R1 EXCEPT !.builds[n] = @ + 1,
                      !.tools = (n :> tool) @@ @,
                      !.returned[n] = @ \cup {tool}],
     out |-> Created(n, tool)]

GetToolConfigFirst(R, cfgs, n) ==
    IF Cached(R.tools, n)
    THEN [R |-> [R EXCEPT !.returned[n] = @ \cup {R.tools[n]}],
          out |-> Fetched(n, R.tools[n])]
    ELSE IF ToolKwargs(cfgs, n).status = "raised" \/ KnownTool(n)
    THEN CreateAndStore(R, cfgs, n)
    ELSE [R |-> R,
          out |-> Raises("get_tool", <<n>>, Raised("ValueError", "UnknownTool"))]

\* get_tool, lines 137-167, run from its first line to its last.
GetTool(R, cfgs, n) ==
    IF Cached(R.tools, n)
    THEN [R |-> [R EXCEPT !.returned[n] = @ \cup {R.tools[n]}],
          out |-> Fetched(n, R.tools[n])]
    ELSE IF ~KnownTool(n)
    THEN [R |-> R,
          out |-> Raises("get_tool", <<n>>, Raised("ValueError", "UnknownTool"))]
    ELSE CreateAndStore(R, cfgs, n)

\* The registry and the caller after a call that ended as r.
Completes(r) ==
    /\ tools' = r.R.tools
    /\ ctorCalls' = r.R.ctorCalls
    /\ builds' = r.R.builds
    /\ returned' = r.R.returned
    /\ result' = r.out

\* get_tool lines 139-141: the name is cached, return the cached tool.
GetToolHit(t, n) ==
    /\ reg = "ok"
    /\ pc[t] = Idle
    /\ Cached(tools, n)
    /\ \E r \in {GetTool(Registry, tool_configs, n)} : Completes(r)
    /\ UNCHANGED <<reg, llm_config, embedder_config, tool_configs, pc, fixed>>
    /\ UNCHANGED <<dataVars, auxVars>>

\* get_tool lines 155-158: not cached and not in tool_mapping.
GetToolUnknown(t, n) ==
    /\ reg = "ok"
    /\ pc[t] = Idle
    /\ ~Cached(tools, n)
    /\ ~KnownTool(n)
    /\ \E r \in {GetTool(Registry, tool_configs, n)} : Completes(r)
    /\ UNCHANGED <<reg, llm_config, embedder_config, tool_configs, pc, fixed>>
    /\ UNCHANGED <<dataVars, auxVars>>

\* get_tool lines 139-160: not cached, class found, about to create.
GetToolBegin(t, n) ==
    /\ reg = "ok"
    /\ pc[t] = Idle
    /\ ~Cached(tools, n)
    /\ KnownTool(n)
    /\ ctorCalls[n] < MaxCtorCalls
    /\ pc' = [pc EXCEPT ![t] = [at |-> "creating", name |-> n]]
    /\ result' = Pending
    /\ UNCHANGED <<reg, llm_config, embedder_config, tool_configs, tools,
                   ctorCalls, builds, returned, fixed>>
    /\ UNCHANGED <<dataVars, auxVars>>

GetToolFinishChained(t) ==
    /\ pc[t].at = "creating"
    /\ \E r \in {CreateAndStore(Registry, tool_configs, pc[t].name)} :
       \E r2 \in {IF pc[t].name = "tedx_search"
                  THEN GetTool(r.R, tool_configs, "tedx_slug") ELSE r} :
          Completes([R |-> r2.R, out |-> r.out])
    /\ pc' = [pc EXCEPT ![t] = Idle]
    /\ UNCHANGED <<reg, llm_config, embedder_config, tool_configs, fixed>>
    /\ UNCHANGED <<dataVars, auxVars>>

GetToolFinishRecheck(t) ==
    /\ pc[t].at = "creating"
    /\ \E r \in {GetTool(Registry, tool_configs, pc[t].name)} : Completes(r)
    /\ pc' = [pc EXCEPT ![t] = Idle]
    /\ UNCHANGED <<reg, llm_config, embedder_config, tool_configs, fixed>>
    /\ UNCHANGED <<dataVars, auxVars>>

\* get_tool lines 160-167: the creation started by GetToolBegin ends.
GetToolFinish(t) ==
    /\ pc[t].at = "creating"
    /\ \E r \in {CreateAndStore(Registry, tool_configs, pc[t].name)} :
          Completes(r)
    /\ pc' = [pc EXCEPT ![t] = Idle]
    /\ UNCHANGED <<reg, llm_config, embedder_config, tool_configs, fixed>>
    /\ UNCHANGED <<dataVars, auxVars>>

FixedNames == {f.name : f \in fixed}

\* The operator corrects the entry of the tool whose creation has just
\* failed: registry.tool_configs[n] is replaced by a complete entry.
FixToolConfig(n) ==
    /\ reg = "ok"
    /\ tool_configs.py = "dict"
    /\ Cardinality(fixed) < MaxFixes
    /\ n \in ToolNames \ FixedNames
    /\ result.op = "get_tool" /\ result.status = "raised" /\ result.args = <<n>>
    /\ tool_configs' = PyDict((n :> GoodSpec(n)) @@ tool_configs.d)
    /\ fixed' = fixed \cup {[name |-> n, kind |-> result.kind]}
    /\ UNCHANGED <<reg, llm_config, embedder_config, tools, pc, result,
                   ctorCalls, builds, returned>>
    /\ UNCHANGED <<dataVars, auxVars>>

-----------------------------------------------------------------------------
(* crewai_manager/agent_factory.py and manager/agent_factory.py *)

\* The exception classes of the model and the ones that are ValueErrors
\* (pydantic's ValidationError derives from ValueError).
ExceptionClasses ==
    {"ValueError", "ValidationError", "TypeError", "AttributeError",
     "FileNotFoundError", "Exception"}

ValueErrors == {"ValueError", "ValidationError"}

\* The "tools" lists of the agents in agents.yaml.
AgentToolLists ==
    {<<>>,
     <<"tedx_search">>,
     <<"not_a_real_tool", "tedx_search">>,
     <<"tedx_slug", "tedx_search", "tedx_slug">>,
     <<"tedx_transcript", "not_a_real_tool", "duckduckgo_search">>,
     <<"sdg_align", "sustainability_impact">>}

\* The loop "for tool_name in tool_names: try: get_tool ... except C":
\* a tool that was got is appended, an exception of a class in caught is
\* logged and the name skipped, any other exception leaves the loop.
RECURSIVE CollectTools(_, _, _, _, _)
CollectTools(R, cfgs, names, acc, caught) ==
    IF names = <<>>
    THEN [R |-> R, status |-> "ok", cls |-> "", kind |-> "", val |-> acc]
    ELSE
    Only({IF r.out.status = "ok"
          THEN CollectTools(r.R, cfgs, Tail(names), acc \o r.out.val, caught)
          ELSE IF r.out.cls \in caught
          THEN CollectTools(r.R, cfgs, Tail(names), acc, caught)
          ELSE [R |-> r.R, status |-> "raised", cls |-> r.out.cls,
                kind |-> r.out.kind, val |-> acc] :
          r \in {GetTool(R, cfgs, Head(names))}})

\* crewai_manager/agent_factory.py, lines 43-51: except Exception.
CrewaiCaught == ExceptionClasses

\* manager/agent_factory.py, lines 41-61: except ValueError.
ManagerCaught == ValueErrors

\* create_agent: the shared LLM config is checked (crewai_manager only), the
\* tools are collected and the Agent is built with them.
AgentOutcome(op, llmChecked, llm, R, cfgs, names, caught) ==
    IF llmChecked /\ (~Truthy(llm) \/ IsBlank(llm.model))
    THEN [R |-> R,
          out |-> Raises(op, names, Raised("ValueError", "NoLLMModel"))]
    ELSE
    Only({[R |-> c.R,
           out |-> IF c.status = "ok" THEN Returns(op, names, c.val)
                   ELSE Raises(op, names, c)] :
          c \in {CollectTools(R, cfgs, names, <<>>, caught)}})

\* No creation counter passes its cap.
WithinCap(R) == \A n \in ToolNames : R.ctorCalls[n] <= MaxCtorCalls

\* crewai_manager.agent_factory.create_agent(name, config, llm, emb, registry)
CrewaiCreateAgent(names) ==
    /\ reg = "ok"
    /\ \E r \in {AgentOutcome("crewai_manager.create_agent", TRUE, llm_config,
                              Registry, tool_configs, names, CrewaiCaught)} :
          WithinCap(r.R) /\ Completes(r)
    /\ UNCHANGED <<reg, llm_config, embedder_config, tool_configs, pc, fixed>>
    /\ UNCHANGED <<dataVars, auxVars>>

\* manager.agent_factory.create_agent(name, config, registry)
ManagerCreateAgent(names) ==
    /\ reg = "ok"
    /\ \E r \in {AgentOutcome("manager.create_agent", FALSE, llm_config,
                              Registry, tool_configs, names, ManagerCaught)} :
          WithinCap(r.R) /\ Completes(r)
    /\ UNCHANGED <<reg, llm_config, embedder_config, tool_configs, pc, fixed>>
    /\ UNCHANGED <<dataVars, auxVars>>

-----------------------------------------------------------------------------
(* The program: calls are made one after the other *)

\* No call is in progress.
Quiet == \A t \in Threads : pc[t] = Idle

Next ==
    \/ \E llm \in LLMArgs, emb \in EmbArgs, yaml \in YamlFiles :
          NewToolRegistry(llm, emb, yaml)
    \/ \E n \in Names : Quiet /\ GetToolHit(MainThread, n)
    \/ \E n \in Names : Quiet /\ GetToolUnknown(MainThread, n)
    \/ \E n \in Names : Quiet /\ GetToolBegin(MainThread, n)
    \/ GetToolFinish(MainThread)
    \/ \E n \in Names : Quiet /\ FixToolConfig(n)
    \/ \E names \in AgentToolLists : Quiet /\ CrewaiCreateAgent(names)
    \/ \E names \in AgentToolLists : Quiet /\ ManagerCreateAgent(names)

Spec == Init /\ [][Next]_vars

\* The registry on its own: get_tool is called directly, one call after
\* the other, and every call is seen while it creates.
RegistryNext ==
    \/ \E llm \in LLMArgs, emb \in EmbArgs, yaml \in YamlFiles :
          NewToolRegistry(llm, emb, yaml)
    \/ \E n \in Names : Quiet /\ GetToolHit(MainThread, n)
    \/ \E n \in Names : Quiet /\ GetToolUnknown(MainThread, n)
    \/ \E n \in Names : Quiet /\ GetToolBegin(MainThread, n)
    \/ GetToolFinish(MainThread)
    \/ \E n \in Names : Quiet /\ FixToolConfig(n)

RegistrySpec == Init /\ [][RegistryNext]_vars

\* The calls of get_tool on a registry built with valid shared configs,
\* or refused for the lack of one, over any tools.yaml.
FairRegistryNext ==
    \/ \E llm \in {ConfigObject("LLMConfig", RawLLMShared), PyNone},
          yaml \in YamlFiles :
          NewToolRegistry(llm, ConfigObject("EmbedderConfig", RawEmbShared),
                          yaml)
    \/ \E n \in Names : Quiet /\ GetToolHit(MainThread, n)
    \/ \E n \in Names : Quiet /\ GetToolUnknown(MainThread, n)
    \/ \E n \in Names : Quiet /\ GetToolBegin(MainThread, n)
    \/ GetToolFinish(MainThread)

\* A call of get_tool that has begun runs on: nothing in get_tool or
\* _create_tool waits for another call.
FairRegistrySpec ==
    Init /\ [][FairRegistryNext]_vars /\ WF_vars(GetToolFinish(MainThread))

\* The registry shared by threads: get_tool holds no lock, so the steps of
\* the calls of different threads interleave between the cache test of line
\* 139 and the store of line 163.
ConcurrentNext ==
    \/ \E llm \in LLMArgs, emb \in EmbArgs, yaml \in YamlFiles :
          NewToolRegistry(llm, emb, yaml)
    \/ \E t \in Threads, n \in Names : GetToolHit(t, n)
    \/ \E t \in Threads, n \in Names : GetToolUnknown(t, n)
    \/ \E t \in Threads, n \in Names : GetToolBegin(t, n)
    \/ \E t \in Threads : GetToolFinish(t)

ConcurrentSpec == Init /\ [][ConcurrentNext]_vars

-----------------------------------------------------------------------------
(* The tools: tools/tedx_slug_tool.py, tedx_search_tool.py,                *)
(* tedx_transcript_tool.py, sdg_align_tool.py,                             *)
(* sustainability_impact_tool.py, custom_tool.py and utils.py              *)
(*                                                                         *)
(* A string that the code trims, lower-cases or compares is a sequence of  *)
(* one-character strings: " a" is <<" ", "a">>.                            *)

MaxRows == 2

\* str.lower() on one character of the model's alphabet.
LowerChar(c) ==
    CASE c = "A" -> "a"
      [] c = "B" -> "b"
      [] OTHER -> c

\* str.lower()
Lower(s) == [i \in 1..Len(s) |-> LowerChar(s[i])]

RECURSIVE LStrip(_)
LStrip(s) == IF s # <<>> /\ Head(s) = " " THEN LStrip(Tail(s)) ELSE s

RECURSIVE RStrip(_)
RStrip(s) ==
    IF s # <<>> /\ s[Len(s)] = " " THEN RStrip(SubSeq(s, 1, Len(s) - 1)) ELSE s

\* str.strip()
Strip(s) == RStrip(LStrip(s))

\* A row as csv.DictReader yields it.  key is the field of the key column
\* (slug, sdg_id or impact_id); short says that the line has fewer fields
\* than the header and ends before the key column, which DictReader then
\* sets to None; title stands for title / sdg_name / impact_name; metrics is
\* the metrics field as split(';') cuts it; score_weight is the field as text.
Row(key, short, title, metrics, score_weight) ==
    [key |-> key, short |-> short, title |-> title, metrics |-> metrics,
     score_weight |-> score_weight]

ShortRow == Row(<<>>, TRUE, "T1", <<>>, "")

\* Rows of the TEDx datasets: slugs that are empty, blank, equal, or equal
\* once trimmed and lower-cased.
TEDxRows ==
    {Row(<<>>, FALSE, "T1", <<>>, ""), Row(<<" ">>, FALSE, "T2", <<>>, ""),
     Row(<<"a">>, FALSE, "T1", <<>>, ""), Row(<<"a">>, FALSE, "T2", <<>>, ""),
     Row(<<"A">>, FALSE, "T2", <<>>, ""), Row(<<" ", "a">>, FALSE, "T1", <<>>, ""),
     Row(<<"b", " ">>, FALSE, "T1", <<>>, ""), ShortRow}

IdFields == {<<>>, <<"3">>, <<" ", "A">>}

\* "a;b;c".split(';') and "c".split(';')
MetricsFields == {<<<<"a">>, <<"b">>, <<"c">>>>, <<<<"c">>>>}

\* The datasets of the scoring tools name each record after its id.
NameOfId(k) == IF k = <<"3">> THEN "Good Health" ELSE "Clean Water"

\* Rows of the scoring datasets: weights that are positive, zero, negative
\* or no number, and a record "B" that bears the name of the record "A".
ScoreRows ==
    {Row(k, FALSE, NameOfId(k), m, "2") : k \in IdFields, m \in MetricsFields}
    \cup {Row(<<"3">>, FALSE, NameOfId(<<"3">>), <<<<"c">>>>, w) :
             w \in {"x", "0", "-1"}}
    \cup {Row(<<"B">>, FALSE, "Clean Water", <<<<"c">>>>, "2"), ShortRow}

RECURSIVE SeqsUpTo(_, _)
SeqsUpTo(S, n) ==
    IF n = 0 THEN {<<>>}
    ELSE LET shorter == SeqsUpTo(S, n - 1)
         IN shorter \cup {Append(q, x) : q \in {r \in shorter : Len(r) = n - 1},
                                         x \in S}

\* A dataset of four talks.
FourTalks ==
    <<Row(<<"a">>, FALSE, "T1", <<>>, ""), Row(<<"b">>, FALSE, "T2", <<>>, ""),
      Row(<<"a", "b">>, FALSE, "T1", <<>>, ""),
      Row(<<"b", "a">>, FALSE, "T2", <<>>, "")>>

\* The CSV files of a tool class: up to MaxRows data rows under the header,
\* and for the search tool the dataset of four talks as well.
CsvFiles(n) ==
    SeqsUpTo(IF n \in TEDxTools THEN TEDxRows ELSE ScoreRows, MaxRows)
    \cup (IF n = "tedx_search" THEN {FourTalks} ELSE {})

\* The key a row is stored under: slug.strip().lower() in the TEDx tools
\* (tedx_slug_tool.py line 42), sdg_id.strip() and impact_id.strip() in the
\* scoring tools (sdg_align_tool.py line 51).
KeyOf(n, field) == IF n \in TEDxTools THEN Lower(Strip(field)) ELSE Strip(field)

StoreRowFirst(index, k, row) == index @@ (k :> row)

\* slug_index[slug] = row
StoreRow(index, k, row) == (k :> row) @@ index

\* load_csv_data lines 37-52, _load_sdg_data, _load_impact_data: the loop
\* over the rows inside one try block.  row.get(key, '') is None for a short
\* row, None.strip() raises AttributeError, and the except clause turns it
\* into Exception("Failed to load ...").
LoadRows(n, rows) ==
    LET RECURSIVE Go(_, _)
        Go(rest, index) ==
            IF rest = <<>> THEN [status |-> "ok", value |-> index]
            ELSE IF Head(rest).short THEN Raised("Exception", "CsvLoadFailed")
            ELSE Go(Tail(rest),
                    IF KeyOf(n, Head(rest).key) # <<>>
                    THEN StoreRow(index, KeyOf(n, Head(rest).key), Head(rest))
                    ELSE index)
    IN Go(rows, EmptyMap)

\* The outcome of a call on a tool: what it returned or raised.  text names
\* the fixed part of the message, about the values put into it, blocks the
\* formatted records.
Says(op, args, text, about, blocks) ==
    [op |-> op, args |-> args, status |-> "ok", cls |-> "", text |-> text,
     about |-> about, blocks |-> blocks, report |-> {}]

Fails(op, args, cls, text) ==
    [op |-> op, args |-> args, status |-> "raised", cls |-> cls, text |-> text,
     about |-> <<>>, blocks |-> <<>>, report |-> {}]

\* A scoring tool returned the lines "name: score" of report.
Reports(op, args, report) ==
    [Says(op, args, "Final Answer:", <<>>, <<>>) EXCEPT !.report = report]

\* tool_class(data_path=...) over a file that exists: the index is built
\* and the tool object exists, or the constructor raises and there is none.
LoadCsvData(n, rows) ==
    /\ loaded = NoTool
    /\ \E r \in {LoadRows(n, rows)} :
          IF r.status = "ok"
          THEN /\ loaded' = [name |-> n, status |-> "ok", rows |-> rows,
                             index |-> r.value, search_results |-> EmptyMap]
               /\ answer' = Says("load", <<>>, "", <<>>, <<>>)
          ELSE /\ loaded' = [name |-> n, status |-> "failed", rows |-> rows,
                             index |-> EmptyMap, search_results |-> EmptyMap]
               /\ answer' = Fails("load", <<>>, r.cls, r.kind)
    /\ UNCHANGED <<regVars, auxVars>>

\* Arguments of the run methods: a str, a list of str, a dict, or None.
PyStr(s) == [py |-> "str", s |-> s]

PyList(l) == [py |-> "list", l |-> l]

Range(q) == {q[i] : i \in DOMAIN q}

\* str(None), which is not empty.
NoneText == <<"None">>

\* The "Title: ... Description: ... URL: ..." block of a record.
Block(entry) == [title |-> entry.title]

SlugArgs ==
    {PyStr(s) : s \in {<<>>, <<"a">>, <<"A">>, <<" ", "a">>, <<"b", " ">>, <<"c">>}}
    \cup {PyNone}

\* TEDxSlugTool.run, lines 64-79: the lookup under slug.lower().
SlugRun(index, slug) ==
    IF slug.py # "str"
    THEN Fails("tedx_slug.run", <<slug>>, "AttributeError", "NoneType has no lower")
    ELSE IF Lower(slug.s) \notin DOMAIN index
    THEN Says("tedx_slug.run", <<slug>>, "No data found for slug", <<slug.s>>,
              <<>>)
    ELSE Says("tedx_slug.run", <<slug>>,
              "Final Answer: TEDx Talk Details for slug", <<slug.s>>,
              <<Block(index[Lower(slug.s)])>>)

\* TEDxTranscriptTool.run, lines 65-80.
TranscriptRun(index, slug) ==
    IF slug.py # "str"
    THEN Fails("tedx_transcript.run", <<slug>>, "AttributeError",
               "NoneType has no lower")
    ELSE IF Lower(slug.s) \notin DOMAIN index
    THEN Says("tedx_transcript.run", <<slug>>, "No transcript found for slug",
              <<slug.s>>, <<>>)
    ELSE Says("tedx_transcript.run", <<slug>>,
              "Final Answer: Transcript for TEDx talk", <<slug.s>>,
              <<Block(index[Lower(slug.s)])>>)

TEDxSlugRun(slug) ==
    /\ loaded.status = "ok"
    /\ loaded.name = "tedx_slug"
    /\ answer' = SlugRun(loaded.index, slug)
    /\ UNCHANGED <<loaded, regVars, auxVars>>

TEDxTranscriptRun(slug) ==
    /\ loaded.status = "ok"
    /\ loaded.name = "tedx_transcript"
    /\ answer' = TranscriptRun(loaded.index, slug)
    /\ UNCHANGED <<loaded, regVars, auxVars>>

\* The records stored under the keys K, in a list.
RECURSIVE RecordsOf(_, _)
RecordsOf(index, K) ==
    IF K = {} THEN <<>>
    ELSE LET k == CHOOSE x \in K : TRUE
         IN <<index[k]>> \o RecordsOf(index, K \ {k})

\* What CSVSearchTool(...).search(csv=self.csv_data, query=...) of the
\* crewai_tools library may do: raise, or return records of the dataset,
\* any number of them.
SearchOutcomes(index) ==
    {Raised("Exception", "SearchFailed"), Raised("FileNotFoundError", "NoCsv")}
    \cup {[status |-> "ok", value |-> RecordsOf(index, K)] :
          K \in SUBSET DOMAIN index}

SearchInputs ==
    {PyStr(<<>>), PyStr(<<" ">>), PyDict(EmptyMap),
     PyDict([query |-> <<>>]), PyDict([query |-> <<" ">>]),
     PyDict([query |-> <<"A">>])}

\* TEDxSearchTool.invoke, lines 67-115.  input.get is an AttributeError on a
\* str; the query is handed to the library as it is, lower-cased; whatever
\* the library raises is raised again, as FileNotFoundError or Exception.
SearchInvoke(input, found) ==
    IF input.py # "dict"
    THEN Fails("tedx_search.invoke", <<input>>, "AttributeError",
               "str has no get")
    ELSE IF found.status = "raised"
    THEN Fails("tedx_search.invoke", <<input>>, found.cls,
               IF found.cls = "FileNotFoundError" THEN "File not found"
               ELSE "Failed to search CSV data.")
    ELSE IF found.value = <<>>
    THEN Says("tedx_search.invoke", <<input>>, "No results found.", <<>>, <<>>)
    ELSE Says("tedx_search.invoke", <<input>>,
              "Final Answer: TEDx Search Results:", <<>>,
              [i \in 1..Len(found.value) |-> Block(found.value[i])])

TEDxSearchInvoke(input, found) ==
    /\ loaded.status = "ok"
    /\ loaded.name = "tedx_search"
    /\ answer' = SearchInvoke(input, found)
    /\ UNCHANGED <<loaded, regVars, auxVars>>

\* utils.extract_query_string, lines 22-41.
ExtractQueryString(query_input) ==
    IF query_input.py = "str" THEN Strip(query_input.s)
    ELSE IF query_input.py = "dict"
    THEN LET first == DictGet(query_input, "search_query", <<>>)
             second == DictGet(query_input, "query", <<>>)
             third == DictGet(query_input, "q", <<>>)
         IN Strip(IF first # <<>> THEN first
                  ELSE IF second # <<>> THEN second ELSE third)
    ELSE NoneText

\* custom_tool.extract_query_string, lines 32-39.  In the dict branch only
\* the default of the outer get is stripped.
CustomExtractQueryString(query_input) ==
    IF query_input.py = "None" THEN <<>>
    ELSE IF query_input.py = "str" THEN Strip(query_input.s)
    ELSE DictGet(query_input, "search_query",
                 Strip(DictGet(query_input, "query",
                               DictGet(query_input, "q", <<>>))))

QueryInputs ==
    {PyStr(<<>>), PyStr(<<" ">>), PyStr(<<"a">>), PyDict(EmptyMap),
     PyDict([q |-> <<"a">>]), PyDict([query |-> <<" ">>]), PyNone}

\* What DuckDuckGoSearchAPIWrapper().run(query) may do.
WebOutcomes == {[status |-> "ok"], Raised("Exception", "WebSearchFailed")}

\* custom_tool.DuckDuckGoSearchTool._run, lines 137-148.
DuckDuckGoRun(query, web) ==
    IF CustomExtractQueryString(query) = <<>>
    THEN Says("duckduckgo_search._run", <<query>>,
              "Error: No valid search query provided.", <<>>, <<>>)
    ELSE IF web.status = "ok"
    THEN Says("duckduckgo_search._run", <<query>>,
              "Final Answer: DuckDuckGo Search Results for",
              <<CustomExtractQueryString(query)>>, <<>>)
    ELSE Says("duckduckgo_search._run", <<query>>,
              "Error during DuckDuckGo search:", <<>>, <<>>)

\* The web search tool has no dataset: it is used without a loaded index.
DuckDuckGoSearchRun(query, web) ==
    /\ loaded = NoTool
    /\ answer' = DuckDuckGoRun(query, web)
    /\ UNCHANGED <<loaded, regVars, auxVars>>

\* float(details.get('score_weight', 0)); the ValueError of a field that is
\* not a number is caught by the caller, which then scores 0.0.
ScoreWeight(row) ==
    CASE row.score_weight = "2" -> 2
      [] row.score_weight = "-1" -> -1
      [] OTHER -> 0

\* SDGAlignTool._calculate_sdg_score, lines 65-71, and
\* SustainabilityImpactTool._calculate_impact_score, lines 53-59.
CalculateScore(row, relevant_metrics) ==
    ScoreWeight(row) * Cardinality(DOMAIN relevant_metrics)

SDGAnalyzeByMetrics(index, sdgs) ==
    {[name |-> index[k].title,
      score |-> ScoreWeight(index[k])
                   * Cardinality(Range(index[k].metrics) \cap Range(sdgs))] :
        k \in {j \in DOMAIN index :
                 ScoreWeight(index[j])
                    * Cardinality(Range(index[j].metrics) \cap Range(sdgs)) > 0}}

\* The keys of a built index in the order a Python dict keeps them: the
\* order in which they were first stored.
IndexOrder(n, rows) ==
    LET RECURSIVE Go(_, _)
        Go(rest, seen) ==
            IF rest = <<>> THEN seen
            ELSE Go(Tail(rest),
                    IF \/ Head(rest).short
                       \/ KeyOf(n, Head(rest).key) = <<>>
                       \/ KeyOf(n, Head(rest).key) \in Range(seen)
                    THEN seen
                    ELSE Append(seen, KeyOf(n, Head(rest).key)))
    IN Go(rows, <<>>)

\* The loop of _analyze over the records: results[name] = score for each
\* record whose score is above 0, a later record of the same name
\* replacing an earlier one.  score gives the score of each key.
NamedScores(index, order, score) ==
    LET RECURSIVE Go(_, _)
        Go(rest, results) ==
            IF rest = <<>> THEN results
            ELSE Go(Tail(rest),
                    IF score[Head(rest)] > 0
                    THEN (index[Head(rest)].title :> score[Head(rest)])
                            @@ results
                    ELSE results)
    IN Go(order, EmptyMap)

\* The lines "name: score" of a results dict.
AsReport(results) ==
    {[name |-> nm, score |-> results[nm]] : nm \in DOMAIN results}

\* SDGAlignTool._analyze, lines 73-85: sdgs selects records by sdg_id, and
\* every metric of a selected record counts.
SDGAnalyze(index, order, sdgs) ==
    AsReport(NamedScores(index, order,
        [k \in DOMAIN index |->
            IF sdgs = <<>> \/ k \in Range(sdgs)
            THEN CalculateScore(index[k], index[k].metrics) ELSE 0]))

NonEmpty(x) == x # <<>>

NonBlank(x) == Strip(x) # <<>>

\* sdg_align_tool.py line 99: [str(sdg).strip() for sdg in sdgs if sdg]
StrippedSdgs(l) ==
    LET kept == SelectSeq(l, NonEmpty) IN [i \in 1..Len(kept) |-> Strip(kept[i])]

\* sustainability_impact_tool.py line 81:
\* [metric.strip() for metric in metrics if metric.strip()]
StrippedMetrics(l) ==
    LET kept == SelectSeq(l, NonBlank) IN [i \in 1..Len(kept) |-> Strip(kept[i])]

IdeaInputs ==
    {PyStr(<<>>), PyStr(<<"x">>), PyDict(EmptyMap),
     PyDict([idea |-> <<"x">>]), PyNone}

TagLists ==
    {PyList(<<>>), PyList(<<<<"a">>, <<"b">>>>), PyList(<<<<"3">>>>),
     PyList(<<<<" ">>, <<"c">>>>), PyList(<<<<"a">>, <<"c">>, <<"a">>>>), PyNone}

\* SDGAlignTool._run, lines 89-109.
SDGRun(index, order, idea, sdgs) ==
    LET idea_str == IF idea.py = "dict" THEN DictGet(idea, "idea", <<>>)
                    ELSE IF idea.py = "str" THEN idea.s
                    ELSE NoneText
    IN
    IF idea_str = <<>>
    THEN Says("sdg_align._run", <<idea, sdgs>>,
              "Error: No valid idea provided for SDG alignment analysis.",
              <<>>, <<>>)
    ELSE IF sdgs.py # "list"
    THEN Fails("sdg_align._run", <<idea, sdgs>>, "TypeError",
               "NoneType is not iterable")
    ELSE
    LET alignment_results ==
            SDGAnalyze(index, order, StrippedSdgs(sdgs.l))
    IN
    IF alignment_results = {}
    THEN Says("sdg_align._run", <<idea, sdgs>>,
              "No relevant SDG alignments found.", <<>>, <<>>)
    ELSE Reports("sdg_align._run", <<idea, sdgs>>, alignment_results)

SDGAlignRun(idea, sdgs) ==
    /\ loaded.status = "ok"
    /\ loaded.name = "sdg_align"
    /\ \E order \in {IndexOrder(loaded.name, loaded.rows)} :
          answer' = SDGRun(loaded.index, order, idea, sdgs)
    /\ UNCHANGED <<loaded, regVars, auxVars>>

\* SustainabilityImpactTool._analyze, lines 61-73: the metrics of a record
\* that are among the caller's count; a record with none of them has the
\* score 0 here and is left out like any record that scores 0 or less.
\* No metrics field of the model repeats a metric, so the length of the
\* selection is the size of the set intersection.
ImpactAnalyze(index, order, metrics) ==
    AsReport(NamedScores(index, order,
        [k \in DOMAIN index |->
            CalculateScore(index[k],
                SelectSeq(index[k].metrics,
                          LAMBDA m : m \in Range(metrics)))]))

\* SustainabilityImpactTool._run, lines 77-94.
ImpactRun(index, order, project, metrics) ==
    IF ExtractQueryString(project) = <<>>
    THEN Says("sustainability_impact._run", <<project, metrics>>,
              "Error: No valid project provided for sustainability impact assessment.",
              <<>>, <<>>)
    ELSE IF metrics.py # "list"
    THEN Fails("sustainability_impact._run", <<project, metrics>>, "TypeError",
               "NoneType is not iterable")
    ELSE IF StrippedMetrics(metrics.l) = <<>>
    THEN Says("sustainability_impact._run", <<project, metrics>>,
              "Error: No valid sustainability metrics provided.", <<>>, <<>>)
    ELSE IF ImpactAnalyze(index, order, StrippedMetrics(metrics.l)) = {}
    THEN Says("sustainability_impact._run", <<project, metrics>>,
              "No relevant sustainability impacts found.", <<>>, <<>>)
    ELSE Reports("sustainability_impact._run", <<project, metrics>>,
                 ImpactAnalyze(index, order, StrippedMetrics(metrics.l)))

SustainabilityImpactRun(project, metrics) ==
    /\ loaded.status = "ok"
    /\ loaded.name = "sustainability_impact"
    /\ \E order \in {IndexOrder(loaded.name, loaded.rows)} :
          answer' = ImpactRun(loaded.index, order, project, metrics)
    /\ UNCHANGED <<loaded, regVars, auxVars>>

\* duckduckgo_search_tool.py, the class the registry builds.  base_url must
\* start with http:// or https:// (check_base_url, lines 35-42).
HttpUrls == {"https://api.duckduckgo.com"}

\* DuckDuckGoSearchTool(api_key=..., base_url=...): search_results starts
\* as the empty dict of its default_factory.
NewDuckDuckGoSearchTool(base_url) ==
    /\ loaded = NoTool
    /\ IF base_url \in HttpUrls
       THEN /\ loaded' = [NoTool EXCEPT !.name = "duckduckgo_search",
                                        !.status = "ok"]
            /\ answer' = Says("load", <<>>, "", <<>>, <<>>)
       ELSE /\ loaded' = [NoTool EXCEPT !.name = "duckduckgo_search",
                                        !.status = "failed"]
            /\ answer' = Fails("load", <<>>, "ValidationError",
                               "base_url must start with http or https")
    /\ UNCHANGED <<regVars, auxVars>>

\* DuckDuckGoSearchTool.run, lines 53-76: the mock results are stored in
\* the tool's field search_results and returned.
DuckDuckGoToolRun(search_query) ==
    /\ loaded.status = "ok"
    /\ loaded.name = "duckduckgo_search"
    /\ loaded' = [loaded EXCEPT !.search_results =
                    [results |-> <<"Result 1", "Result 2", "Result 3">>]]
    /\ answer' = Says("duckduckgo_search.run", <<search_query>>,
                      "Final Answer: DuckDuckGo Search Results:", <<>>, <<>>)
    /\ UNCHANGED <<regVars, auxVars>>

\* The tools used on their own: one is constructed over a CSV file, then
\* its run method is called any number of times.
ToolsNext ==
    \/ \E n \in DatasetTools : \E rows \in CsvFiles(n) : LoadCsvData(n, rows)
    \/ \E slug \in SlugArgs : TEDxSlugRun(slug)
    \/ \E slug \in SlugArgs : TEDxTranscriptRun(slug)
    \/ \E input \in SearchInputs : \E found \in SearchOutcomes(loaded.index) :
          TEDxSearchInvoke(input, found)
    \/ \E query \in QueryInputs, web \in WebOutcomes :
          DuckDuckGoSearchRun(query, web)
    \/ \E idea \in IdeaInputs, sdgs \in TagLists : SDGAlignRun(idea, sdgs)
    \/ \E project \in IdeaInputs, metrics \in TagLists :
          SustainabilityImpactRun(project, metrics)
    \/ \E base_url \in {"https://api.duckduckgo.com",
                       "ftp://api.duckduckgo.com"} :
          NewDuckDuckGoSearchTool(base_url)
    \/ \E search_query \in {PyStr(<<>>), PyStr(<<"a">>)} :
          DuckDuckGoToolRun(search_query)

ToolsSpec == Init /\ [][ToolsNext]_vars

-----------------------------------------------------------------------------
(* The schemas used on their own: schemas/config_schemas.py                *)
(*                                                                         *)
(* A temperature is counted in tenths: 7 is 0.7, 20 is 2.0.                *)

\* The mappings with none of the keys of ks.
Without(m, ks) == [k \in DOMAIN m \ ks |-> m[k]]

\* Raw mappings as a YAML section gives them: every provider, model and
\* temperature, any of the three keys left out, and values that are no
\* mapping.
RawConfigs ==
    {PyNone, PyDict(EmptyMap), PyDict([provider |-> "ollama"]),
     PyDict([provider |-> "ollama", config |-> PyNone])}
    \cup {PyDict(Without([provider |-> p,
                          config |-> PyDict(Without([model |-> m,
                                                     temperature |-> t], ik))],
                         ok)) :
             p \in {"ollama", " ollama ", "", " "},
             m \in {"llama3", " llama3", "", "  "},
             t \in {-1, 0, 7, 20, 21, 25},
             ik \in {{}, {"model"}, {"temperature"}}, ok \in {{}, {"provider"}}}

\* cls.model_validate(raw)
Validate(cls, raw) ==
    /\ validated' = [cls |-> cls, raw |-> raw, out |-> ModelValidate(cls, raw),
                     again |-> [status |-> "none"]]
    /\ UNCHANGED <<regVars, dataVars, loader, mgr>>

\* cls.model_validate(obj) on the object a validation has yielded.
Revalidate ==
    /\ validated.out.status = "ok"
    /\ validated.again.status = "none"
    /\ validated' =
          [validated EXCEPT
              !.again = ModelValidate(validated.cls, validated.out.value)]
    /\ UNCHANGED <<regVars, dataVars, loader, mgr>>

SchemaNext ==
    \/ \E cls \in {"LLMConfig", "EmbedderConfig"}, raw \in RawConfigs : Validate(cls, raw)
    \/ Revalidate

SchemaSpec == Init /\ [][SchemaNext]_vars

-----------------------------------------------------------------------------
(* The configuration loader: tools/config_loader.py                        *)

\* The values a section of a YAML file may have: null, an empty mapping, a
\* mapping, a mapping with an llm_config (a mapping or null), an empty
\* string, a list.
SectionValues ==
    {PyNone, PyDict(EmptyMap), PyDict([role |-> "r"]),
     PyDict([llm_config |-> PyDict([config |-> PyDict([model |-> "llama3"])])]),
     PyDict([llm_config |-> PyNone]),
     [py |-> "str", s |-> <<>>], [py |-> "list", l |-> <<"llm_config">>]}

\* A path names no file, a file that is no YAML, or a file that parses.
\* What yaml.safe_load may return: None for an empty file, an empty
\* mapping or list, a list, or a mapping with some of the sections agents
\* and tools.
ConfigFiles ==
    {[kind |-> "missing"], [kind |-> "unparseable"]}
    \cup {[kind |-> "parsed", config |-> c] :
             c \in {PyNone, [py |-> "list", l |-> <<>>],
                    [py |-> "list", l |-> <<"agents">>]}
                   \cup {PyDict([n \in ns |-> IF n = "agents" THEN a ELSE t]) :
                            ns \in SUBSET {"agents", "tools"},
                            a \in SectionValues, t \in SectionValues}}

\* "llm_config" in section
HasLLMConfig(section) ==
    CASE section.py = "dict" -> "llm_config" \in DOMAIN section.d
      [] section.py = "list" -> "llm_config" \in {section.l[i] : i \in DOMAIN section.l}
      [] OTHER -> FALSE

SectionOfDefault(config, config_section) ==
    DictGet(config, config_section, PyDict(EmptyMap))

\* config.get(config_section), line 27
SectionOf(config, config_section) == DictGet(config, config_section, PyNone)

\* Lines 32-40: the LLM built from the llm_config of the section is attached
\* to the section under the key llm.  made is what the constructor of
\* crewai's LLM does: it returns or raises.
AttachLLM(section, made) ==
    IF section.py # "dict" THEN Raised("AttributeError", "NoGet")
    ELSE IF section.d["llm_config"].py # "dict"
    THEN Raised("AttributeError", "NoGet")
    ELSE IF DictGet(section.d["llm_config"], "config", PyDict(EmptyMap)).py # "dict"
    THEN Raised("AttributeError", "NoGet")
    ELSE IF made.status = "raised" THEN made
    ELSE [status |-> "ok",
          value |-> PyDict(("llm" :>
                       [py |-> "LLM",
                        model |-> DictGet(DictGet(section.d["llm_config"],
                                                  "config", PyDict(EmptyMap)),
                                          "model", PyNone)])
                     @@ section.d)]

\* load_config, lines 10-53; every exception is logged and raised again.
LoadConfigOutcome(file, config_section, made) ==
    IF file.kind = "missing" THEN Raised("FileNotFoundError", "NotFound")
    ELSE IF file.kind = "unparseable" THEN Raised("YAMLError", "ParseError")
    ELSE IF ~Truthy(file.config) THEN Raised("ValueError", "Empty")
    ELSE IF file.config.py # "dict" THEN Raised("AttributeError", "NoGet")
    ELSE IF SectionOf(file.config, config_section) = PyNone
    THEN Raised("KeyError", "MissingSection")
    ELSE IF HasLLMConfig(SectionOf(file.config, config_section))
    THEN AttachLLM(SectionOf(file.config, config_section), made)
    ELSE [status |-> "ok", value |-> SectionOf(file.config, config_section)]

LoadConfig(file, config_section, made) ==
    /\ \E out \in {LoadConfigOutcome(file, config_section, made)} :
          loader' = [file |-> file, section |-> config_section, out |-> out]
    /\ UNCHANGED <<regVars, dataVars, validated, mgr>>

LoaderNext ==
    \E file \in ConfigFiles, config_section \in {"agents", "tools", "model"},
       made \in {[status |-> "ok"], Raised("Exception", "LLMFailed")} :
          LoadConfig(file, config_section, made)

LoaderSpec == Init /\ [][LoaderNext]_vars

-----------------------------------------------------------------------------
(* The crew managers: manager/manager.py, crewai_manager/manager.py and    *)
(* crew.py of tedxsdg, crew.py of solarconnection                          *)

\* The most tasks a manager accumulates and the most agents it constructs
\* under one name.
MaxTasks == 4

\* Of the four CrewAIManager classes ("manager", "crewai_manager", "crew",
\* "solarconnection"), the two that load their configuration with load_config, create their
\* agents with the agent factory, and append to self.tasks in create_task.
Factories == {"manager", "crewai_manager"}

AgentNames == {"researcher", "writer"}

\* agents.yaml as loaded; None is what yaml.safe_load gives for an empty
\* file. Its entries: a complete one, one whose role is null, and (as
\* PyNone) one with an empty body.
AgentsConfigs ==
    {PyDict([researcher |-> good, writer |-> good]) :
        good \in {PyDict([role |-> PyStr(<<"t">>)])}}
    \cup {PyDict([researcher |-> PyDict([role |-> PyStr(<<"t">>)])]),
          PyDict([researcher |-> PyNone,
                  writer |-> PyDict([role |-> PyStr(<<"t">>)])]),
          PyDict([researcher |-> PyDict([role |-> PyNone]),
                  writer |-> PyDict([role |-> PyStr(<<"t">>)])]),
          PyDict(EmptyMap),
          PyNone}

\* The keys of a dict whose iteration order matters: it is kept as its
\* items, in insertion order.
Keys(od) == [i \in DOMAIN od.items |-> od.items[i].key]

ValueOf(od, k) ==
    od.items[CHOOSE i \in DOMAIN od.items : od.items[i].key = k].value

\* An entry of tasks.yaml assigned to an agent.
TaskFor(a) == PyDict([agent |-> a, description |-> PyStr(<<"t">>)])

\* tasks.yaml as loaded, None for an empty file. Besides the entries
\* assigned to an agent, one has an empty body (PyNone), one has no "agent"
\* key and one has a list as description.
TasksConfigs ==
    {[py |-> "dict", items |-> items] :
        items \in
          {<<[key |-> "research", value |-> TaskFor("researcher")],
             [key |-> "write", value |-> TaskFor("writer")]>>,
           <<[key |-> "research", value |-> TaskFor("researcher")],
             [key |-> "write", value |-> TaskFor("researcher")]>>,
           <<[key |-> "research", value |-> PyNone],
             [key |-> "write", value |-> TaskFor("writer")]>>,
           <<[key |-> "research",
              value |-> PyDict([description |-> PyStr(<<"t">>)])],
             [key |-> "write", value |-> TaskFor("researcher")]>>,
           <<[key |-> "research",
              value |-> PyDict([agent |-> "researcher",
                                description |-> PyList(<<>>)])],
             [key |-> "write", value |-> TaskFor("writer")]>>,
           <<[key |-> "write", value |-> TaskFor("editor")]>>,
           <<>>}}
    \cup {PyNone}

\* task_config.get("agent"): the name, or None (written "None").
AgentKey(task_config) ==
    IF "agent" \in DOMAIN task_config.d THEN task_config.d.agent ELSE "None"

NoTask == [task |-> "None", agent |-> [name |-> "None", id |-> 0]]

\* How a method of the manager ends: it returns val, returns None, or raises.
Ok(M, val) == [M |-> M, status |-> "ok", cls |-> "", val |-> val]

ReturnsNone(M) == [M |-> M, status |-> "none", cls |-> "", val |-> NoTask]

Err(M, cls) == [M |-> M, status |-> "raised", cls |-> cls, val |-> NoTask]

\* self.agents: the agents in insertion order, each under its own name.
HasAgent(M, a) == \E i \in DOMAIN M.agents : M.agents[i].name = a

AgentOf(M, a) ==
    M.agents[CHOOSE i \in DOMAIN M.agents : M.agents[i].name = a]

\* self.agents[agent.name] = agent
Store(M, agent) ==
    IF HasAgent(M, agent.name)
    THEN [M EXCEPT !.agents =
             [i \in DOMAIN @ |-> IF @[i].name = agent.name THEN agent
                                 ELSE @[i]]]
    ELSE [M EXCEPT !.agents = Append(@, agent)]

\* create_agent of the factories and of the crew.py files, from the read of
\* the entry's "tools" to the Agent built: an entry with an empty body has
\* no "get", an Agent needs a role. The manager's factory fills in a
\* default role for a missing key, the others pass agent_config.get("role").
BuildAgent(v, M, a) ==
    IF M.agents_config.d[a] = PyNone THEN Err(M, "AttributeError")
    ELSE IF DictGet(M.agents_config.d[a], "role",
                    IF v = "manager" THEN PyStr(<<"t">>) ELSE PyNone) = PyNone
    THEN CASE v = "manager" -> Err(M, "ValueError")
           [] v = "solarconnection" -> ReturnsNone(M)
           [] OTHER -> Err(M, "ValidationError")
    ELSE Only({IF v \in Factories THEN Ok(M1, agent)
               ELSE Ok(Store(M1, agent), agent) :
               M1 \in {[M EXCEPT !.made[a] = @ + 1]},
               agent \in {[name |-> a, id |-> M.made[a] + 1]}})

\* _create_agent / create_agent of the four managers.
CreateAgent(v, M, a) ==
    IF M.agents_config = PyNone THEN Err(M, "TypeError")
    ELSE IF a \notin DOMAIN M.agents_config.d
    THEN CASE v = "crewai_manager" -> Err(M, "KeyError")
           [] v = "solarconnection" -> ReturnsNone(M)
           [] OTHER -> Err(M, "ValueError")
    ELSE BuildAgent(v, M, a)

NeedsAgentAlways(M, a) == TRUE

\* if agent_name not in self.agents
NeedsAgent(M, a) == ~HasAgent(M, a)

\* Task(description=..., agent=agent, ...): the factories' managers pass the
\* description as it is and a Task needs a str, the crew.py files convert
\* it with str().
TaskOutcome(v, M, t, task_config) ==
    IF v \in Factories
    THEN IF DictGet(task_config, "description", PyStr(<<>>)).py # "str"
         THEN Err(M, "ValidationError")
         ELSE Ok([M EXCEPT !.tasks =
                     Append(@, [task |-> t,
                                agent |-> AgentOf(M, AgentKey(task_config))])],
                 NoTask)
    ELSE Ok(M, [task |-> t, agent |-> AgentOf(M, AgentKey(task_config))])

\* create_task of the four managers.
CreateTask(v, M, t) ==
    IF M.tasks_config = PyNone THEN Err(M, "TypeError")
    ELSE IF t \notin Range(Keys(M.tasks_config))
    THEN IF v = "solarconnection" THEN ReturnsNone(M) ELSE Err(M, "ValueError")
    ELSE IF ValueOf(M.tasks_config, t) = PyNone THEN Err(M, "AttributeError")
    ELSE
    Only({IF ~NeedsAgent(M, a) THEN TaskOutcome(v, M, t, task_config)
          ELSE Only({IF r.status # "ok" THEN [r EXCEPT !.val = NoTask]
                     ELSE IF v \in Factories
                     THEN TaskOutcome(v, Store(r.M, r.val), t, task_config)
                     ELSE TaskOutcome(v, r.M, t, task_config) :
                     r \in {CreateAgent(v, M, a)}}) :
          task_config \in {ValueOf(M.tasks_config, t)},
          a \in {AgentKey(ValueOf(M.tasks_config, t))}})

\* The loop of initialize_crew over the task names: the tedxsdg managers
\* catch what create_task raises and go on, solarconnection's has no try;
\* the crew.py files append the task that create_task returned.
RECURSIVE CreateTasks(_, _, _, _)
CreateTasks(v, M, names, attempted) ==
    IF names = <<>>
    THEN [M |-> M, status |-> "ok", cls |-> "", attempted |-> attempted]
    ELSE
    Only({IF r.status = "raised" /\ v = "solarconnection"
          THEN [M |-> r.M, status |-> "raised", cls |-> r.cls,
                attempted |-> Append(attempted, Head(names))]
          ELSE IF r.status = "ok" /\ v \notin Factories
          THEN CreateTasks(v, [r.M EXCEPT !.tasks = Append(@, r.val)],
                           Tail(names), Append(attempted, Head(names)))
          ELSE CreateTasks(v, r.M, Tail(names),
                           Append(attempted, Head(names))) :
          r \in {CreateTask(v, M, Head(names))}})

\* initialize_crew of the four managers.
InitializeCrew(v, M) ==
    IF M.tasks_config = PyNone
    THEN [M |-> M, status |-> "raised", cls |-> "AttributeError",
          attempted |-> <<>>, crew |-> NoCall.crew]
    ELSE
    Only({IF r.status = "raised"
          THEN [M |-> r.M, status |-> "raised", cls |-> r.cls,
                attempted |-> r.attempted, crew |-> NoCall.crew]
          ELSE IF r.M.agents = <<>> \/ r.M.tasks = <<>>
          THEN [M |-> r.M, status |-> "raised", cls |-> "ValueError",
                attempted |-> r.attempted, crew |-> NoCall.crew]
          ELSE [M |-> r.M, status |-> "ok", cls |-> "",
                attempted |-> r.attempted,
                crew |-> [agents |-> r.M.agents, tasks |-> r.M.tasks]] :
          r \in {CreateTasks(v, M, Keys(M.tasks_config), <<>>)}})

\* CrewAIManager(agents_config_path, tasks_config_path, ...): load_config
\* never gives the factories' managers None (it raises instead), the
\* crew.py files keep what yaml.safe_load returned.
NewCrewAIManager(v, agents_config, tasks_config) ==
    /\ mgr.variant = "none"
    /\ v \in Factories => agents_config # PyNone /\ tasks_config # PyNone
    /\ mgr' = [variant |-> v, agents_config |-> agents_config,
               tasks_config |-> tasks_config, agents |-> <<>>,
               tasks |-> <<>>, made |-> [a \in AgentNames |-> 0],
               out |-> [NoCall EXCEPT !.op = "__init__"]]
    /\ UNCHANGED <<regVars, dataVars, validated, loader>>

\* manager.create_task(t)
CallCreateTask(t) ==
    /\ mgr.variant # "none"
    /\ \E r \in {CreateTask(mgr.variant, mgr, t)} :
          /\ Len(r.M.tasks) <= MaxTasks
          /\ \A a \in AgentNames : r.M.made[a] <= MaxTasks
          /\ mgr' = [r.M EXCEPT !.out =
                        [op |-> "create_task", arg |-> t,
                         status |-> r.status, cls |-> r.cls,
                         attempted |-> <<>>, crew |-> NoCall.crew]]
    /\ UNCHANGED <<regVars, dataVars, validated, loader>>

\* manager.initialize_crew()
CallInitializeCrew ==
    /\ mgr.variant # "none"
    /\ \E r \in {InitializeCrew(mgr.variant, mgr)} :
          /\ Len(r.M.tasks) <= MaxTasks
          /\ \A a \in AgentNames : r.M.made[a] <= MaxTasks
          /\ mgr' = [r.M EXCEPT !.out =
                        [op |-> "initialize_crew", arg |-> "",
                         status |-> r.status, cls |-> r.cls,
                         attempted |-> r.attempted, crew |-> r.crew]]
    /\ UNCHANGED <<regVars, dataVars, validated, loader>>

ManagerNext ==
    \/ \E v \in {"manager", "crewai_manager", "crew", "solarconnection"},
          agents_config \in AgentsConfigs,
          tasks_config \in TasksConfigs :
             NewCrewAIManager(v, agents_config, tasks_config)
    \/ \E t \in {"research", "write", "review"} : CallCreateTask(t)
    \/ CallInitializeCrew

ManagerSpec == Init /\ [][ManagerNext]_vars

-----------------------------------------------------------------------------
(* Properties of the registry *)

\* A get_tool(n) call that was not cut short by the cache ends in this step.
CallDone(n) ==
    /\ result' # result
    /\ result'.op = "get_tool"
    /\ result'.args = <<n>>
    /\ result'.status # "pending"

\* tool_configs has an entry for n that is a mapping with something in it.
HasToolSpec(n) ==
    /\ tool_configs.py = "dict"
    /\ n \in DOMAIN tool_configs.d
    /\ tool_configs.d[n].py = "dict"
    /\ DOMAIN tool_configs.d[n].d # {}

\* The entry of n has no data_path, or an empty one.
LacksDataPath(n) ==
    /\ HasToolSpec(n)
    /\ ("data_path" \in DOMAIN tool_configs.d[n].d =>
            tool_configs.d[n].d["data_path"] \in {NoPath, ""})

\* The entry of n has an llm_config and an embedder_config, both valid.
ConfigsValidate(n) ==
    /\ HasToolSpec(n)
    /\ "llm_config" \in DOMAIN tool_configs.d[n].d
    /\ "embedder_config" \in DOMAIN tool_configs.d[n].d
    /\ ConfigValid(tool_configs.d[n].d["llm_config"])
    /\ ConfigValid(tool_configs.d[n].d["embedder_config"])

\* The entry of n is complete: valid configs and, for a dataset tool, the
\* path of a readable CSV.
CompleteSpec(n) ==
    /\ tool_configs.py = "dict"
    /\ n \in DOMAIN tool_configs.d
    /\ tool_configs.d[n] = GoodSpec(n)

\* C1: successful get_tool(n) calls all return one and the same instance,
\* at most one instance is ever built for n, and once n is cached the
\* constructor of n is not called again.
C1_IdempotentCache ==
    [][\A n \in ToolNames :
          /\ Cardinality(returned'[n]) <= 1
          /\ builds'[n] <= 1
          /\ Cached(tools, n) =>
                /\ ctorCalls'[n] = ctorCalls[n]
                /\ builds'[n] = builds[n]
                /\ returned'[n] = {tools[n]}]_vars

\* A second get_tool(n) has been answered from the cache.
C1_Witness ==
    /\ result.op = "get_tool"
    /\ result.kind = "fetched"
    /\ \E n \in DatasetTools :
          /\ result.args = <<n>>
          /\ result.val = <<tools[n]>>
          /\ builds[n] = 1
          /\ ctorCalls[n] = 1

IsConstructing(n) ==
    \E t \in Threads : pc[t].at = "creating" /\ pc[t].name = n

\* The state of a tool name in the registry.
NameState(n) ==
    IF n \in DOMAIN tools THEN "cached"
    ELSE IF IsConstructing(n) THEN "constructing"
    ELSE "unregistered"

\* C2: a name is never cached and constructing at once; its state changes
\* only unregistered -> constructing -> cached or constructing ->
\* unregistered; a failed construction is raised to the caller of get_tool
\* and leaves the name out of the cache; and a construction whose entry in
\* tool_configs is complete succeeds, whatever failed before.
C2_Lifecycle ==
    [][\A n \in Names :
          /\ ~(n \in DOMAIN tools' /\ IsConstructing(n)')
          /\ NameState(n)' # NameState(n) =>
                <<NameState(n), NameState(n)'>> \in
                    {<<"unregistered", "constructing">>,
                     <<"constructing", "cached">>,
                     <<"constructing", "unregistered">>}
          /\ (NameState(n) = "constructing" /\ NameState(n)' = "unregistered") =>
                /\ result'.op = "get_tool"
                /\ result'.args = <<n>>
                /\ result'.status = "raised"
                /\ result'.cls \in ExceptionClasses
                /\ tools' = tools
          /\ (NameState(n) = "constructing" /\ NameState(n)' # "constructing"
                /\ CompleteSpec(n)) =>
                NameState(n)' = "cached"]_vars

\* A name whose construction failed was constructed at a later call.
C2_Witness ==
    \E f \in fixed : f.name \in DOMAIN tools /\ result.kind = "created"

\* C3: get_tool of a name outside the closed set raises the unknown-tool
\* ValueError and leaves the cache as it was.
C3_UnknownTool ==
    [][\A n \in Names \ ToolNames :
          (result' # result /\ result'.op = "get_tool" /\ result'.args = <<n>>) =>
             /\ result'.status = "raised"
             /\ result'.cls = "ValueError"
             /\ result'.kind = "UnknownTool"
             /\ tools' = tools]_vars

\* The unknown-tool error was raised by a registry with tools in its cache.
C3_Witness ==
    /\ result.op = "get_tool"
    /\ result.kind = "UnknownTool"
    /\ result.args = <<"not_a_real_tool">>
    /\ DOMAIN tools # {}

MergedConfig(n, key, cls, shared) ==
    IF key \in DOMAIN tool_configs.d[n].d
    THEN ConfigObject(cls, tool_configs.d[n].d[key])
    ELSE shared

\* The entry of n is fit for construction, but for configs it leaves out.
FitButForConfigs(n) ==
    /\ HasToolSpec(n)
    /\ n \in DatasetTools =>
          /\ "data_path" \in DOMAIN tool_configs.d[n].d
          /\ FileStatus(tool_configs.d[n].d["data_path"]) = "ok"
          /\ tool_configs.d[n].d["data_path"] # ""
    /\ "llm_config" \in DOMAIN tool_configs.d[n].d =>
          ConfigValid(tool_configs.d[n].d["llm_config"])
    /\ "embedder_config" \in DOMAIN tool_configs.d[n].d =>
          ConfigValid(tool_configs.d[n].d["embedder_config"])

C7_FailFastConfig ==
    [][/\ (reg = "none" /\ reg' # "none") =>
             /\ result'.op = "ToolRegistry"
             /\ (result'.val[1].py # "LLMConfig"
                   \/ result'.val[2].py # "EmbedderConfig") =>
                   /\ reg' = "failed"
                   /\ result'.status = "raised"
                   /\ result'.cls \in {"ValueError", "TypeError"}
       /\ reg' # "ok" =>
             /\ tools' = EmptyMap
             /\ \A n \in ToolNames : ctorCalls'[n] = 0 /\ builds'[n] = 0
       /\ reg' = "ok" =>
             /\ llm_config'.py = "LLMConfig"
             /\ ~IsBlank(llm_config'.model)
             /\ ~IsBlank(llm_config'.provider)
             /\ embedder_config'.py = "EmbedderConfig"
             /\ ~IsBlank(embedder_config'.model)]_vars

\* ToolRegistry was called with an LLM mapping that has no model, and raised.
C7_Witness ==
    /\ reg = "failed"
    /\ result.op = "ToolRegistry"
    /\ result.status = "raised"
    /\ result.val[1] = RawNoModel("ollama")
    /\ tools = EmptyMap

\* The errors of get_tool that say an llm_config or embedder_config is
\* missing or invalid.
ConfigFailures == {"MissingLLMConfig", "MissingEmbedderConfig", "InvalidConfig"}

AgentOps == {"crewai_manager.create_agent", "manager.create_agent"}

\* The cached tools of the names of a list, in the order of the list.
ToolsOf(names) ==
    LET got == SelectSeq(names, LAMBDA n : n \in DOMAIN tools)
    IN [i \in 1..Len(got) |-> tools[got[i]]]

\* C9: create_agent builds the agent whatever get_tool raises for some of
\* its tool names, and the agent's tools are the tools of the names that
\* did not fail, in configured order.
C9_AgentTolerates ==
    (result.op \in AgentOps /\ result.kind # "NoLLMModel") =>
       /\ result.status = "ok"
       /\ result.val = ToolsOf(result.args)

\* C10: a name that is cached stays cached, with the same instance.
C10_CacheMonotonic ==
    [][\A n \in ToolNames :
          n \in DOMAIN tools =>
             /\ n \in DOMAIN tools'
             /\ tools'[n] = tools[n]]_vars

\* A get_tool call has failed while another tool was cached.
C10_Witness ==
    /\ result.op = "get_tool"
    /\ result.status = "raised"
    /\ result.kind = "MissingToolConfig"
    /\ DOMAIN tools # {}

\* C11: get_tool does not look at the cache again between its test of line
\* 139 and its store of line 163: a thread that passed the test constructs
\* and stores its own instance whatever the other threads have stored by
\* then, so two threads that both passed the test for n call the
\* constructor of n twice and get different instances.
C11_DuplicateConstruction ==
    [][\A t \in Threads :
          (pc[t].at = "creating" /\ pc'[t] = Idle /\ CompleteSpec(pc[t].name)) =>
             /\ ctorCalls'[pc[t].name] = ctorCalls[pc[t].name] + 1
             /\ builds'[pc[t].name] = builds[pc[t].name] + 1
             /\ result' = Created(pc[t].name, tools'[pc[t].name])
             /\ pc[t].name \in DOMAIN tools =>
                   tools'[pc[t].name] # tools[pc[t].name]]_vars

\* Both threads have made their first get_tool(n) call: the constructor of
\* n ran twice and the callers were given two different instances.
C11_Witness ==
    /\ Quiet
    /\ \E n \in ToolNames :
          /\ ctorCalls[n] = 2
          /\ builds[n] = 2
          /\ Cardinality(returned[n]) = 2
          /\ tools[n] \in returned[n]

C26_NoNoneConfig ==
    /\ reg = "ok" => tool_configs.py = "dict"
    /\ (/\ result.op = "get_tool"
        /\ result.status = "raised"
        /\ result.args[1] \in ToolNames) => result.cls # "AttributeError"

\* The chain of the tools that may be built for one another.
Chain == <<"tedx_search", "tedx_slug", "tedx_transcript">>

\* The names that precede n in the chain.
Precedes(n) ==
    {Chain[i] : i \in {j \in DOMAIN Chain :
                          \E k \in DOMAIN Chain : Chain[k] = n /\ j < k}}

\* Thread t takes a step of a get_tool(n) call.
StepsCall(t, n) ==
    \/ pc[t] = [at |-> "creating", name |-> n] /\ pc'[t] = Idle
    \/ pc[t] = Idle /\ pc'[t] = [at |-> "creating", name |-> n]
    \/ /\ pc'[t] = pc[t]
       /\ result' # result
       /\ result'.op = "get_tool"
       /\ result'.args = <<n>>

FirstCheck(n) ==
    IF n \in DOMAIN tools THEN "cache"
    ELSE IF n \notin ToolNames THEN "name"
    ELSE IF ~HasToolSpec(n) THEN "tool config"
    ELSE IF DictGet(tool_configs.d[n], "embedder_config", PyNone) = PyNone
    THEN "embedder_config"
    ELSE IF DictGet(tool_configs.d[n], "llm_config", PyNone) = PyNone
    THEN "llm_config"
    ELSE IF ~ConfigsValidate(n) THEN "validation"
    ELSE IF n \in DatasetTools /\ LacksDataPath(n) THEN "data_path"
    ELSE "none"

\* The outcomes of get_tool that each check decides.
DecidedBy(check) ==
    CASE check = "cache" -> {"fetched"}
      [] check = "name" -> {"UnknownTool"}
      [] check = "tool config" -> {"MissingToolConfig", "NoToolConfigs"}
      [] check = "embedder_config" -> {"MissingEmbedderConfig"}
      [] check = "llm_config" -> {"MissingLLMConfig"}
      [] check = "validation" -> {"InvalidConfig"}
      [] check = "data_path" -> {"MissingDataPath"}
      [] check = "none" -> {"created", "CsvNotFound", "CsvLoadFailed"}

\* C28: the outcome of get_tool(n) is decided by the first check that fails
\* in the order cache hit, unknown name, missing tool config, missing
\* embedder_config, missing llm_config, validation of the two configs,
\* missing data_path, construction; the constructor is called only when no
\* check fails, and a cache hit returns the cached tool.
C28_CheckOrder ==
    [][\A n \in Names :
          (/\ result' # result
           /\ result'.op = "get_tool"
           /\ result'.status # "pending"
           /\ result'.args = <<n>>) =>
             /\ result'.kind \in DecidedBy(FirstCheck(n))
             /\ FirstCheck(n) # "none" =>
                   /\ ctorCalls' = ctorCalls
                   /\ tools' = tools
             /\ FirstCheck(n) = "none" => ctorCalls'[n] = ctorCalls[n] + 1
             /\ FirstCheck(n) = "cache" => result'.val = <<tools[n]>>]_vars

\* A dataset tool whose entry lacks both the llm_config and the data_path
\* has been refused for the llm_config.
C28_Witness ==
    /\ result.op = "get_tool"
    /\ result.kind = "MissingLLMConfig"
    /\ result.args[1] \in DatasetTools
    /\ HasToolSpec(result.args[1])
    /\ DOMAIN tool_configs.d[result.args[1]].d = {"embedder_config"}

-----------------------------------------------------------------------------
(* Properties of the tools *)

\* Trim and lower-case.
Normalized(field) == Lower(Strip(field))

\* The rows of the loaded file that are whole and have a key.
KeyedRows ==
    {i \in DOMAIN loaded.rows :
        ~loaded.rows[i].short /\ Normalized(loaded.rows[i].key) # <<>>}

\* C12: the index of a TEDx tool has one record for each distinct non-empty
\* normalized key of the file, and the record under a key is the last row
\* of the file with that key.
C12_LastWriteWins ==
    (loaded.status = "ok" /\ loaded.name \in TEDxTools) =>
       /\ DOMAIN loaded.index =
             {Normalized(loaded.rows[i].key) : i \in KeyedRows}
       /\ \A i \in KeyedRows :
             (\A j \in KeyedRows :
                 j > i => Normalized(loaded.rows[j].key)
                             # Normalized(loaded.rows[i].key)) =>
                loaded.index[Normalized(loaded.rows[i].key)] = loaded.rows[i]

\* A file whose first and last row have the same normalized key and differ
\* has been indexed.
C12_Witness ==
    /\ loaded.status = "ok"
    /\ loaded.name = "tedx_slug"
    /\ Len(loaded.rows) >= 2
    /\ loaded.rows[1].key = <<"A">>
    /\ loaded.rows[Len(loaded.rows)].key = <<" ", "a">>
    /\ loaded.rows[1].title # loaded.rows[Len(loaded.rows)].title
    /\ loaded.index[<<"a">>] = loaded.rows[Len(loaded.rows)]

\* C13: in every index built, each key is non-empty and is the trimmed,
\* lower-cased key field of the row stored under it, and the rows with a
\* blank key field are left out; for all five index builders.
C13_KeysNormalized ==
    loaded.status = "ok" =>
       /\ \A k \in DOMAIN loaded.index :
             k # <<>> /\ k = Normalized(loaded.index[k].key)
       /\ DOMAIN loaded.index =
             {Normalized(loaded.rows[i].key) : i \in KeyedRows}

\* C14: a file with valid rows and a row whose processing raises is still
\* indexed, and the index has every valid row's key.
C14_MalformedRowSkipped ==
    (/\ loaded.status # "none"
     /\ \E i \in DOMAIN loaded.rows : loaded.rows[i].short
     /\ \E i \in DOMAIN loaded.rows : ~loaded.rows[i].short) =>
       /\ loaded.status = "ok"
       /\ \A i \in KeyedRows :
             KeyOf(loaded.name, loaded.rows[i].key) \in DOMAIN loaded.index

\* C16: TEDxSlugTool.run(s) answers with the record stored under the
\* trimmed, lower-cased s when there is one, and otherwise with "No data
\* found for slug '<s>'".
C16_SlugLookup ==
    (answer.op = "tedx_slug.run" /\ answer.args[1].py = "str") =>
       /\ answer.status = "ok"
       /\ answer.about = <<answer.args[1].s>>
       /\ IF Normalized(answer.args[1].s) \in DOMAIN loaded.index
          THEN /\ answer.text = "Final Answer: TEDx Talk Details for slug"
               /\ answer.blocks =
                     <<Block(loaded.index[Normalized(answer.args[1].s)])>>
          ELSE /\ answer.text = "No data found for slug"
               /\ answer.blocks = <<>>

\* The empty queries: "", a string of blanks, an empty mapping.
EmptyQueries == {PyStr(<<>>), PyStr(<<" ">>), PyDict(EmptyMap)}

\* C17: a search tool called with an empty query raises nothing and
\* returns the error string "No valid search query provided".
C17_EmptyQuery ==
    (/\ answer.op \in {"tedx_search.invoke", "duckduckgo_search._run"}
     /\ answer.args[1] \in EmptyQueries) =>
       /\ answer.status = "ok"
       /\ answer.text = "Error: No valid search query provided."

\* The texts a call answers with when it has done its work.
SuccessTexts ==
    {"Final Answer:", "Final Answer: TEDx Talk Details for slug",
     "Final Answer: Transcript for TEDx talk",
     "Final Answer: TEDx Search Results:",
     "Final Answer: DuckDuckGo Search Results for"}

\* The call that ended as a had a required argument empty or missing: the
\* slug, the idea, the project or the list of metrics.
EmptyRequired(a) ==
    \/ /\ a.op \in {"tedx_slug.run", "tedx_transcript.run"}
       /\ a.args[1] \in {PyStr(<<>>), PyNone}
    \/ /\ a.op \in {"sdg_align._run", "sustainability_impact._run"}
       /\ a.args[1] = PyStr(<<>>)
    \/ /\ a.op = "sustainability_impact._run"
       /\ a.args[2] = PyList(<<>>)

\* C18: a call whose required argument is empty or missing returns a string
\* that describes the error, and raises nothing.
C18_EmptyArgument ==
    EmptyRequired(answer) =>
       /\ answer.status = "ok"
       /\ answer.text \notin SuccessTexts

\* C19: the answer of the dataset search to a non-empty query has at most 3
\* result blocks, and is "No results found." exactly when nothing matched.
C19_AtMostThree ==
    (/\ answer.op = "tedx_search.invoke"
     /\ answer.status = "ok"
     /\ answer.args[1].py = "dict"
     /\ Strip(DictGet(answer.args[1], "query", <<>>)) # <<>>) =>
       /\ Len(answer.blocks) <= 3
       /\ answer.text = "No results found." <=> answer.blocks = <<>>

\* C20: SDGAlignTool reports each record whose metrics share a tag with the
\* caller's list, with the score score_weight * (number of shared metrics),
\* and no other record.
C20_ScoreByTags ==
    (/\ answer.op = "sdg_align._run"
     /\ answer.status = "ok"
     /\ answer.text # "Error: No valid idea provided for SDG alignment analysis."
     /\ answer.args[2].py = "list") =>
       answer.report = SDGAnalyzeByMetrics(loaded.index, answer.args[2].l)

\* The call that ended as answer was a sustainability assessment with a
\* project and a list of metrics that are not empty once trimmed.
ImpactAssessed ==
    /\ answer.op = "sustainability_impact._run"
    /\ ExtractQueryString(answer.args[1]) # <<>>
    /\ answer.args[2].py = "list"
    /\ StrippedMetrics(answer.args[2].l) # <<>>

\* score_weight x |record metrics intersect caller metrics| of the record
\* under key k, for the call that ended as answer.
ImpactScore(k) ==
    ScoreWeight(loaded.index[k])
       * Cardinality(Range(loaded.index[k].metrics)
                        \cap Range(StrippedMetrics(answer.args[2].l)))

\* The keys of the records that score above 0.
Scoring == {k \in DOMAIN loaded.index : ImpactScore(k) > 0}

\* C21: the report of an assessment has an entry "name: score" exactly for
\* the records that score above 0, each with its score, and the answer is
\* "No relevant sustainability impacts found." exactly when no record does.
C21_ImpactReport ==
    ImpactAssessed =>
       /\ answer.status = "ok"
       /\ answer.report =
             {[name |-> loaded.index[k].title, score |-> ImpactScore(k)] :
                k \in Scoring}
       /\ answer.text = "No relevant sustainability impacts found."
             <=> Scoring = {}

\* The calls that query a constructed tool.
RunOps ==
    {"tedx_slug.run", "tedx_transcript.run", "tedx_search.invoke",
     "sdg_align._run", "sustainability_impact._run", "duckduckgo_search.run"}

\* C22: a query leaves the tool, its index and its other fields, as it was,
\* and the same call made again on the tool returns the same string (the
\* dataset search is left out of the second half: what it returns is up to
\* the search library).
C22_QueryLeavesTool ==
    [][(loaded.status = "ok" /\ answer'.op \in RunOps) =>
          /\ loaded' = loaded
          /\ (/\ answer.op = answer'.op
              /\ answer.args = answer'.args
              /\ answer.op # "tedx_search.invoke") => answer' = answer]_vars

-----------------------------------------------------------------------------
(* Properties of the schemas *)

\* The raw mapping has the three keys provider, config.model and
\* config.temperature.
Complete(raw) ==
    /\ raw.py = "dict"
    /\ {"provider", "config"} \subseteq DOMAIN raw.d
    /\ raw.d["config"].py = "dict"
    /\ {"model", "temperature"} \subseteq DOMAIN raw.d["config"].d

C24_ValidRanges ==
    validated.cls = "LLMConfig" =>
       /\ validated.out.status = "ok" =>
             /\ ~IsBlank(validated.out.value.provider)
             /\ ~IsBlank(validated.out.value.model)
             /\ validated.out.value.temperature \in 0..20
       /\ (/\ validated.raw.py = "dict"
           /\ {"provider", "config"} \subseteq DOMAIN validated.raw.d
           /\ validated.raw.d["config"].py = "dict"
           /\ \/ IsBlank(validated.raw.d["provider"])
              \/ "model" \notin DOMAIN validated.raw.d["config"].d
              \/ IsBlank(validated.raw.d["config"].d["model"])
              \/ /\ "temperature" \in DOMAIN validated.raw.d["config"].d
                 /\ validated.raw.d["config"].d["temperature"] \notin 0..20) =>
             /\ validated.out.status = "raised"
             /\ validated.out.cls = "ValidationError"

-----------------------------------------------------------------------------
(* Properties of the configuration loader *)

\* The section asked for, as the file of the last call has it.
Requested == loader.file.config.d[loader.section]

\* C25: load_config returns the section asked for, which is not None, or
\* raises; a missing file, a file that does not parse, a file that parses
\* to nothing and a file without the section each raise their own error;
\* None or a default is never returned.
C25_SectionOrError ==
    loader.file.kind # "none" =>
       /\ loader.out.status \in {"ok", "raised"}
       /\ loader.out.status = "ok" =>
             /\ loader.out.value # PyNone
             /\ loader.file.kind = "parsed"
             /\ loader.file.config.py = "dict"
             /\ loader.section \in DOMAIN loader.file.config.d
             /\ \/ loader.out.value = Requested
                \/ /\ Requested.py = "dict"
                   /\ loader.out.value.py = "dict"
                   /\ DOMAIN loader.out.value.d = DOMAIN Requested.d \cup {"llm"}
                   /\ \A k \in DOMAIN Requested.d :
                         loader.out.value.d[k] = Requested.d[k]
       /\ loader.file.kind = "missing" =>
             loader.out = Raised("FileNotFoundError", "NotFound")
       /\ loader.file.kind = "unparseable" =>
             loader.out = Raised("YAMLError", "ParseError")
       /\ (loader.file.kind = "parsed" /\ ~Truthy(loader.file.config)) =>
             loader.out = Raised("ValueError", "Empty")
       /\ (/\ loader.file.kind = "parsed"
           /\ loader.file.config.py = "dict"
           /\ loader.file.config.d # EmptyMap
           /\ loader.section \notin DOMAIN loader.file.config.d) =>
             loader.out = Raised("KeyError", "MissingSection")

\* A file with the section tools but not the section asked for has been
\* loaded.
C25_Witness ==
    /\ loader.file.kind = "parsed"
    /\ loader.file.config.py = "dict"
    /\ DOMAIN loader.file.config.d = {"tools"}
    /\ loader.section = "agents"
    /\ loader.out.status = "raised"

-----------------------------------------------------------------------------
(* Properties of the crew managers *)

\* The agent name configured for a task of the task list.
ConfiguredAgent(task) == AgentKey(ValueOf(mgr.tasks_config, task.task))

\* A create_task call has just ended by raising.
CreateTaskRaised ==
    /\ mgr' # mgr
    /\ mgr'.out.op = "create_task"
    /\ mgr'.out.status = "raised"

\* C29: whatever create_task calls were made, at most one agent has been
\* created under each agent name, an agent being created only when its name
\* is not yet in the agents map; every task of the task list is assigned to
\* the agent that the agents map holds under the task's configured agent
\* name; and a create_task call that raises appends no task.
C29_AgentsAndTasks ==
    /\ [](mgr.variant # "none" =>
            /\ \A a \in AgentNames : mgr.made[a] <= 1
            /\ \A i \in DOMAIN mgr.tasks :
                  /\ HasAgent(mgr, ConfiguredAgent(mgr.tasks[i]))
                  /\ mgr.tasks[i].agent =
                        AgentOf(mgr, ConfiguredAgent(mgr.tasks[i])))
    /\ [][/\ \A a \in AgentNames :
                (mgr.variant # "none" /\ mgr'.made[a] > mgr.made[a]) =>
                   ~HasAgent(mgr, a) /\ HasAgent(mgr', a)
          /\ CreateTaskRaised => mgr'.tasks = mgr.tasks]_vars

\* Two different tasks of the task list share the one agent created under
\* their agent name, and the create_task call that followed them raised.
C29_Witness ==
    /\ mgr.out.op = "create_task"
    /\ mgr.out.status = "raised"
    /\ \E i, j \in DOMAIN mgr.tasks :
          /\ mgr.tasks[i].task # mgr.tasks[j].task
          /\ mgr.tasks[i].agent = mgr.tasks[j].agent
          /\ mgr.made[mgr.tasks[i].agent.name] = 1

\* The task names of tasks.yaml in configuration order.
Configured ==
    IF mgr.tasks_config = PyNone THEN <<>> ELSE Keys(mgr.tasks_config)

\* The place of a task name in the configuration.
PlaceOf(t) == CHOOSE i \in DOMAIN Configured : Configured[i] = t

\* An initialize_crew call has just ended.
CrewInitialized ==
    /\ mgr.variant # "none"
    /\ mgr' # mgr
    /\ mgr'.out.op = "initialize_crew"

\* C30: initialize_crew attempts every configured task, in configuration
\* order, a task whose creation raises not stopping the ones after it; it
\* raises ValueError exactly when the agents map or the task list is empty
\* afterwards; otherwise it returns the crew of all the agents created so
\* far and of the task list, to which it has added the tasks it created in
\* configuration order.
C30_InitializeCrew ==
    [][CrewInitialized =>
          /\ mgr'.out.attempted = Configured
          /\ (mgr'.out.status = "raised" /\ mgr'.out.cls = "ValueError")
                <=> (mgr'.agents = <<>> \/ mgr'.tasks = <<>>)
          /\ ~(mgr'.agents = <<>> \/ mgr'.tasks = <<>>) =>
                /\ mgr'.out.status = "ok"
                /\ mgr'.out.crew = [agents |-> mgr'.agents,
                                    tasks |-> mgr'.tasks]
                /\ SubSeq(mgr'.tasks, 1, Len(mgr.tasks)) = mgr.tasks
                /\ \A i, j \in DOMAIN mgr'.tasks :
                      Len(mgr.tasks) < i /\ i < j =>
                         PlaceOf(mgr'.tasks[i].task)
                            < PlaceOf(mgr'.tasks[j].task)]_vars

=============================================================================
